---- MODULE Spec2Model ----
(***************************************************************************)
(* Eye-contact tracking of the speak backend.                              *)
(*                                                                         *)
(*   Spec         the web tracker: the AdvancedEyeTracker instance of      *)
(*                app.py (eye_tracker) driven by the socket handlers       *)
(*                start_session, process_frame, stop_session,              *)
(*                calibrate_tracker and reset_tracker.                     *)
(*   MonitorSpec  the standalone monitor: the capture loop of              *)
(*                eye_contact_monitor.py's main, one step per loop         *)
(*                iteration (grab, blink, pose, calibration,               *)
(*                classification, timing, drawing, key handling).          *)
(*   ReadingsSpec the same loop fed frames only, no key pressed.           *)
(*   BlinkSpec    the same loop fed frames whose eyes open and close.      *)
(*   BufferSpec   an AngleBuffer object on its own, added to and averaged  *)
(*                in any order.                                            *)
(*   ScoreSpec    calculate_engagement_score of speech_analyzer.py,        *)
(*                called on the inputs of its declared domains.            *)
(*   GazeSpec     calculate_gaze_direction_simple of the web tracker,      *)
(*                called on eye corners and iris centres.                  *)
(*   GestureSpec  the gesture controller: the loop of ModelGestures.py's   *)
(*                main, one step per frame (toggles, slide navigation).    *)
(*   AnalyzeSpec  one session started, fed frames, stopped and analyzed    *)
(*                by handle_analyze_session.                               *)
(*   AuthSpec     the routes /auth/register, /auth/login and               *)
(*                /ai/recommendations.                                     *)
(*   ConcurrentSpec  process_frame events handled concurrently, one step   *)
(*                per read or write of a tracker counter.                  *)
(*                                                                         *)
(* Units.  Head-pose angles are integers in tenths of a degree, gaze       *)
(* components integers in thousandths, so that round(x, 1) and             *)
(* round(x, 3) of get_frame_analysis are exact on the modelled values.     *)
(* The eye-contact percentage is the exact rational <<num, den>>.          *)
(* In the monitor, whose poses pass through the averaging AngleBuffer,     *)
(* the angle unit is 1/AngleScale of a degree and raw poses are whole      *)
(* degrees, so that every mean over the window is exact; blink ratios      *)
(* are in hundredths and the clock counts ticks.  The engagement score is  *)
(* in hundredths of a point, its ratio arguments and weights in            *)
(* hundredths.                                                             *)
(* In the gesture controller times are in tenths of a second and x         *)
(* positions in hundredths of the frame width.                             *)
(***************************************************************************)
EXTENDS Integers, Sequences, FiniteSets, TLC

\* ------------------------------------------------------------------ bounds

\* process_frame is not taken with a face once total_frames reached this.
MaxFrames == 3

\* The monitor's averaging window: main builds AngleBuffer(size=10); the model
\* runs the same buffer with this window.
MonitorBufferSize == 2

\* The monitor calibrates on the first face frame with frame_count > 30; the
\* model runs the same loop with this warm-up count.
WarmupFrames == 2

\* No loop iteration starts once the clock reached this many ticks.
MaxClock == 2

\* An AngleBuffer on its own is pushed to at most this many times.
MaxPushes == 4

\* At most this many process_frame events are handled concurrently.
MaxCalls == 2

\* /auth/login returns at most this many tokens.
MaxLogins == 2

\* The gesture loop reads at most this many frames, none later than this
\* many tenths of a second after its start.
MaxGestureFrames == 5

MaxGestureTicks == 20

\* The speaking rates scored are the multiples of 5 words per minute up to
\* this one.
MaxWpm == 200

\* No frame closes the eyes further once EYES_BLINK_FRAME_COUNTER reached this.
MaxBlinkFrames == 3

\* No blink is counted once TOTAL_BLINKS reached this.
MaxBlinks == 1

\* 'c' is not pressed when it would move the baseline further than this many
\* degrees from zero.
MaxBaseline == 80

\* ------------------------------------------------- constants of the tracker

\* advanced_eye_tracker.py:35, 45 degrees, in tenths of a degree
EYE_CONTACT_THRESHOLD_YAW == 450
\* advanced_eye_tracker.py:36, 45 degrees, in tenths of a degree
EYE_CONTACT_THRESHOLD_PITCH == 450
\* advanced_eye_tracker.py:37, 0.8, in thousandths
GAZE_THRESHOLD == 800

\* ------------------------------------------------- constants of the monitor

\* eye_contact_monitor.py:37, 0.51, in hundredths
BLINK_THRESHOLD == 51
\* eye_contact_monitor.py:38
EYE_AR_CONSEC_FRAMES == 2
\* eye_contact_monitor.py:41, degrees
MONITOR_THRESHOLD_YAW == 30
\* eye_contact_monitor.py:42, degrees
MONITOR_THRESHOLD_PITCH == 30
\* eye_contact_monitor.py:43, 0.5, in thousandths
MONITOR_GAZE_THRESHOLD == 500
\* eye_contact_monitor.py:215, the gaze sanity bound 2, in thousandths
GAZE_SANITY_BOUND == 2000

\* ------------------------------------------------------------------ values

\* Python's None; a set value v is <<v>>.
None == << >>

Some(v) == <<v>>

Abs(x) == IF x < 0 THEN -x ELSE x

Min(a, b) == IF a <= b THEN a ELSE b

Max(a, b) == IF a >= b THEN a ELSE b

\* round(n / d) to the nearest integer, ties to even (Python's round), n >= 0, d > 0
RoundHalfEven(n, d) ==
    LET q == n \div d
        r == n % d
    IN  IF 2 * r < d THEN q
        ELSE IF 2 * r > d THEN q + 1
        ELSE IF q % 2 = 0 THEN q ELSE q + 1

\* Session ids the clients use.
SessionIds == {"s1", "s2"}

\* What the geometry helpers return for a detected face: the raw pitch and yaw
\* of estimate_head_pose_simple (its roll is always 0) and the gaze x of
\* calculate_gaze_direction_simple (its gaze y is always 0).  (0, 0) is also
\* what both return when they catch an exception.
RawPitches == {0, 300, 500}

RawYaws == {0, 500}

RawGazeXs == {0, 800, -900, 2500}

\* image_data as process_frame sees it:
\*   "badb64"       base64 decoding raises (the except branch)
\*   "undecodable"  cv.imdecode returns None
\*   "noface"       a decoded frame in which the face mesh finds no face
\*   "face"         a decoded frame with a face
Images ==
    [kind : {"badb64", "undecodable", "noface"}, pitch : {0}, yaw : {0}, gaze_x : {0}]
    \cup [kind : {"face"}, pitch : RawPitches, yaw : RawYaws, gaze_x : RawGazeXs]

\* The state of the web tracker (eye_tracker), of app.py's active_sessions,
\* the socket event handled last and what its handler emitted.
VARIABLES eye_tracker, active_sessions, request, emitted

\* The standalone monitor: its module globals and main's locals (monitor),
\* time.time() (clock), whether the capture loop is still running, and what
\* the loop iteration run last saw and drew (shown).
VARIABLES monitor, clock, running, shown

\* An AngleBuffer object on its own (angle_buffer: its size and buffer
\* attributes), every triple added to it so far, oldest first (pushed), and
\* what get_average returned if it was the call made last (averaged).
VARIABLES angle_buffer, pushed, averaged

\* The arguments of the last call of calculate_engagement_score
\* (engagement_inputs) and what it returned (overall_engagement).
VARIABLES engagement_inputs, overall_engagement

\* The arguments of the last call of calculate_gaze_direction_simple on its
\* own (gaze_args) and what it returned (gaze_returned).
VARIABLES gaze_args, gaze_returned

\* The gesture controller of ModelGestures.py: main's locals (gestures),
\* time.time() in tenths of a second (gesture_clock), the number of frames
\* read so far (frames_read), and every slide attempt so far (swipes): a
\* frame labelled Swipe_* by the model while control was on, or a swipe found
\* by the fallback, with the time span of the frame and whether a key was
\* pressed.
VARIABLES gestures, gesture_clock, frames_read, swipes

\* What handle_analyze_session stored as active_sessions[s]['analysis'], per
\* session id (None before the first analysis).
VARIABLES analysis

\* The HTTP API of app.py: the users table (email to password hash), the
\* tokens /auth/login has returned with the email each was returned for, how
\* many it has returned, and the request answered last with its answer.
VARIABLES users, issued, logins, api

\* The process_frame events being handled when handlers run concurrently:
\* per call, where it is in AdvancedEyeTracker.process_frame (pc) and the
\* locals it holds.
VARIABLES calls

web_vars == <<eye_tracker, active_sessions, request, emitted>>

monitor_vars == <<monitor, clock, running, shown>>

buffer_vars == <<angle_buffer, pushed, averaged>>

score_vars == <<engagement_inputs, overall_engagement>>

gaze_vars == <<gaze_args, gaze_returned>>

gesture_vars == <<gestures, gesture_clock, frames_read, swipes>>

analysis_vars == <<analysis>>

auth_vars == <<users, issued, logins, api>>

call_vars == <<calls>>

vars == <<eye_tracker, active_sessions, request, emitted,
          monitor, clock, running, shown,
          angle_buffer, pushed, averaged,
          engagement_inputs, overall_engagement,
          gaze_args, gaze_returned,
          gestures, gesture_clock, frames_read, swipes,
          analysis,
          users, issued, logins, api,
          calls>>

\* ------------------------------------------------------ AdvancedEyeTracker

\* AdvancedEyeTracker.__init__
AdvancedEyeTracker ==
    [TOTAL_BLINKS |-> 0,
     face_detected |-> FALSE,
     landmarks_detected |-> FALSE,
     total_frames |-> 0,
     eye_contact_frames |-> 0,
     eye_contact_percentage |-> <<0, 1>>,
     initial_pitch |-> None,
     initial_yaw |-> None,
     initial_roll |-> None,
     calibrated |-> FALSE]

\* estimate_head_pose_simple: <<pitch, yaw, roll>>, roll ignored (0)
estimate_head_pose_simple(img) == <<img.pitch, img.yaw, 0>>

\* calculate_gaze_direction_simple: <<gaze_x, gaze_y>>, vertical ignored (0)
calculate_gaze_direction_simple(img) == <<img.gaze_x, 0>>

\* np.linalg.norm of the difference of two points that lie on one horizontal
\* or one vertical line
Norm(p, q) == IF p[2] = q[2] THEN Abs(p[1] - q[1]) ELSE Abs(p[2] - q[2])

\* calculate_gaze_direction_simple computed from the landmarks: the eye
\* corners (pixel points <<x, y>>) and the two iris centres; the gaze is in
\* thousandths.  ((c - o) / w - 0.5) * 2 is 2 (c - o) / w - 1.
gaze_direction_simple(landmarks, left_center, right_center) ==
    LET left_eye_width == Norm(landmarks.left_inner, landmarks.left_outer)
        right_eye_width == Norm(landmarks.right_inner, landmarks.right_outer)
    IN  IF left_eye_width = 0 \/ right_eye_width = 0
        THEN <<0, 0>>
        ELSE LET left_gaze_x ==
                     ((left_center[1] - landmarks.left_outer[1]) * 2000)
                         \div left_eye_width - 1000
                 right_gaze_x ==
                     ((right_center[1] - landmarks.right_outer[1]) * 2000)
                         \div right_eye_width - 1000
             IN  <<(left_gaze_x + right_gaze_x) \div 2, 0>>

\* detect_eye_contact_simple accepting either condition.
detect_eye_contact_simple_Either(head_pitch, head_yaw, gaze_x, gaze_y) ==
    LET head_forward == Abs(head_yaw) < EYE_CONTACT_THRESHOLD_YAW
                        /\ Abs(head_pitch) < EYE_CONTACT_THRESHOLD_PITCH
        gaze_forward == Abs(gaze_x) < GAZE_THRESHOLD
                        /\ Abs(gaze_y) < GAZE_THRESHOLD
    IN  head_forward \/ gaze_forward

\* detect_eye_contact_simple
detect_eye_contact_simple(head_pitch, head_yaw, gaze_x, gaze_y) ==
    LET head_forward == Abs(head_yaw) < EYE_CONTACT_THRESHOLD_YAW
                        /\ Abs(head_pitch) < EYE_CONTACT_THRESHOLD_PITCH
        gaze_forward == Abs(gaze_x) < GAZE_THRESHOLD
                        /\ Abs(gaze_y) < GAZE_THRESHOLD
    IN  head_forward /\ gaze_forward

\* get_frame_analysis: the record returned to the web client
get_frame_analysis(t, eye_contact, gaze_x, gaze_y, pitch, yaw, roll) ==
    [face_detected |-> t.face_detected,
     landmarks_detected |-> t.landmarks_detected,
     eye_contact |-> eye_contact,
     \* round(percentage, 1), in tenths of a percent
     eye_contact_percentage |->
         RoundHalfEven(t.eye_contact_percentage[1] * 10, t.eye_contact_percentage[2]),
     \* round(eye_contact_frames / 10, 1), in tenths of a second
     total_eye_contact_time |-> RoundHalfEven(t.eye_contact_frames * 10, 10),
     blink_count |-> t.TOTAL_BLINKS,
     gaze_direction |-> [x |-> gaze_x, y |-> gaze_y],
     head_pose |-> [pitch |-> pitch, yaw |-> yaw, roll |-> roll]]

\* get_comprehensive_analysis, core_metrics: the score and the blink rate
\* (blinks per minute at 10 frames per second) in tenths
get_comprehensive_analysis(t) ==
    [core_metrics |->
        [eye_contact_score |->
             RoundHalfEven(t.eye_contact_percentage[1] * 10, t.eye_contact_percentage[2]),
         blink_count |-> t.TOTAL_BLINKS,
         blink_rate |-> RoundHalfEven(t.TOTAL_BLINKS * 6000, Max(10, t.total_frames)),
         total_points |-> t.total_frames]]

\* AutoCalibrate without its "is None" test: every frame recalibrates.
AutoCalibrate_EveryFrame(t, pose) ==
    [t EXCEPT !.initial_pitch = Some(pose[1]),
              !.initial_yaw = Some(pose[2]),
              !.initial_roll = Some(pose[3]),
              !.calibrated = TRUE]

\* process_frame, "Auto-calibrate": the first pose seen becomes the baseline
AutoCalibrate(t, pose) ==
    IF t.initial_pitch = None
    THEN [t EXCEPT !.initial_pitch = Some(pose[1]),
                   !.initial_yaw = Some(pose[2]),
                   !.initial_roll = Some(pose[3]),
                   !.calibrated = TRUE]
    ELSE t

\* ApplyCalibration subtracting the baseline twice.
ApplyCalibration_Twice(t, pose) ==
    IF t.calibrated
    THEN <<pose[1] - 2 * t.initial_pitch[1], pose[2] - 2 * t.initial_yaw[1], pose[3]>>
    ELSE pose

\* process_frame, "Apply calibration": pitch and yaw relative to the baseline
ApplyCalibration(t, pose) ==
    IF t.calibrated
    THEN <<pose[1] - t.initial_pitch[1], pose[2] - t.initial_yaw[1], pose[3]>>
    ELSE pose

\* UpdateCounters computing the percentage before it counts the contact frame.
UpdateCounters_StalePercentage(t, current_eye_contact) ==
    LET total == t.total_frames + 1
        contact == IF current_eye_contact
                   THEN t.eye_contact_frames + 1
                   ELSE t.eye_contact_frames
    IN  [t EXCEPT !.total_frames = total,
                  !.eye_contact_frames = contact,
                  !.eye_contact_percentage = <<t.eye_contact_frames * 100, total>>]

\* UpdateCounters counting a blink on every frame without eye contact.
UpdateCounters_CountsBlinks(t, current_eye_contact) ==
    LET total == t.total_frames + 1
        contact == IF current_eye_contact
                   THEN t.eye_contact_frames + 1
                   ELSE t.eye_contact_frames
    IN  [t EXCEPT !.total_frames = total,
                  !.eye_contact_frames = contact,
                  !.eye_contact_percentage = <<contact * 100, total>>,
                  !.TOTAL_BLINKS = IF current_eye_contact THEN @ ELSE @ + 1]

\* process_frame, "Update counters" and "Calculate percentage"
UpdateCounters(t, current_eye_contact) ==
    LET total == t.total_frames + 1
        contact == IF current_eye_contact
                   THEN t.eye_contact_frames + 1
                   ELSE t.eye_contact_frames
    IN  [t EXCEPT !.total_frames = total,
                  !.eye_contact_frames = contact,
                  !.eye_contact_percentage =
                      IF total > 0 THEN <<contact * 100, total>> ELSE @]

\* NoFrame counting the unusable frame in total_frames.
NoFrame_CountsFrame(t, img) ==
    LET t1 == [t EXCEPT !.face_detected = FALSE,
                        !.landmarks_detected = FALSE,
                        !.total_frames = @ + 1,
                        !.eye_contact_percentage =
                            <<t.eye_contact_frames * 100, t.total_frames + 1>>]
    IN  [tracker |-> t1, analysis |-> get_frame_analysis(t1, FALSE, 0, 0, 0, 0, 0)]

\* process_frame, the branch of a frame that cannot be used: undecodable
\* image (return before the flags are touched), no face, or an exception
NoFrame(t, img) ==
    LET t1 == IF img.kind = "undecodable"
              THEN t
              ELSE [t EXCEPT !.face_detected = FALSE, !.landmarks_detected = FALSE]
    IN  [tracker |-> t1, analysis |-> get_frame_analysis(t1, FALSE, 0, 0, 0, 0, 0)]

\* process_frame, the branch of a frame with a face
FaceFrame(t, img) ==
    LET t1 == [t EXCEPT !.face_detected = TRUE]
        gaze == calculate_gaze_direction_simple(img)
        raw == estimate_head_pose_simple(img)
        t2 == AutoCalibrate(t1, raw)
        pose == ApplyCalibration(t2, raw)
        current_eye_contact ==
            detect_eye_contact_simple(pose[1], pose[2], gaze[1], gaze[2])
        t3 == UpdateCounters(t2, current_eye_contact)
        t4 == [t3 EXCEPT !.landmarks_detected = TRUE]
    IN  [tracker |-> t4,
         analysis |-> get_frame_analysis(t4, current_eye_contact, gaze[1], gaze[2],
                                         pose[1], pose[2], pose[3])]

\* process_frame: the tracker after the call and the record it returns
process_frame(t, img) ==
    IF img.kind = "face" THEN FaceFrame(t, img) ELSE NoFrame(t, img)

\* reset_session leaving eye_contact_frames as it is.
reset_session_KeepsContactFrames(t) ==
    [t EXCEPT !.TOTAL_BLINKS = 0,
              !.total_frames = 0,
              !.eye_contact_percentage = <<0, 1>>,
              !.face_detected = FALSE,
              !.landmarks_detected = FALSE,
              !.initial_pitch = None,
              !.initial_yaw = None,
              !.initial_roll = None,
              !.calibrated = FALSE]

\* reset_session leaving the calibration baseline as it is.
reset_session_KeepsBaseline(t) ==
    [t EXCEPT !.TOTAL_BLINKS = 0,
              !.total_frames = 0,
              !.eye_contact_frames = 0,
              !.eye_contact_percentage = <<0, 1>>,
              !.face_detected = FALSE,
              !.landmarks_detected = FALSE]

\* reset_session
reset_session(t) ==
    [t EXCEPT !.TOTAL_BLINKS = 0,
              !.total_frames = 0,
              !.eye_contact_frames = 0,
              !.eye_contact_percentage = <<0, 1>>,
              !.face_detected = FALSE,
              !.landmarks_detected = FALSE,
              !.initial_pitch = None,
              !.initial_yaw = None,
              !.initial_roll = None,
              !.calibrated = FALSE]

\* calibrate_head_pose clearing the flag but not the baseline.
calibrate_head_pose_FlagOnly(t) ==
    [t EXCEPT !.calibrated = FALSE]

\* calibrate_head_pose
calibrate_head_pose(t) ==
    [t EXCEPT !.initial_pitch = None,
              !.initial_yaw = None,
              !.initial_roll = None,
              !.calibrated = FALSE]

\* ------------------------------------------- AngleBuffer, standalone monitor

RECURSIVE Factorial(_)
Factorial(n) == IF n <= 1 THEN 1 ELSE n * Factorial(n - 1)

\* Angle units per degree in the monitor: every window length divides it.
AngleScale == Factorial(MonitorBufferSize)

\* AngleBuffer.__init__
AngleBuffer(size) == [size |-> size, buffer |-> << >>]

\* AngleBuffer.add dropping the entry just appended when the buffer is full.
AngleBuffer_add_DropsNewest(buffer, size, angles) ==
    IF Len(buffer) >= size THEN buffer ELSE Append(buffer, angles)

\* AngleBuffer.add: append, and drop the oldest entry beyond the window
AngleBuffer_add(buffer, size, angles) ==
    LET appended == Append(buffer, angles)
    IN  IF Len(appended) > size THEN Tail(appended) ELSE appended

RECURSIVE SumAxis(_, _)
SumAxis(buffer, axis) ==
    IF buffer = << >> THEN 0 ELSE Head(buffer)[axis] + SumAxis(Tail(buffer), axis)

\* AngleBuffer.get_average dividing by the window size, not by the number
\* of entries held.
AngleBuffer_get_average_OverSize(buffer) ==
    <<SumAxis(buffer, 1) \div MonitorBufferSize,
      SumAxis(buffer, 2) \div MonitorBufferSize,
      SumAxis(buffer, 3) \div MonitorBufferSize>>

\* AngleBuffer.get_average: the mean per axis, [0, 0, 0] of an empty buffer
AngleBuffer_get_average(buffer) ==
    IF buffer = << >>
    THEN <<0, 0, 0>>
    ELSE <<SumAxis(buffer, 1) \div Len(buffer),
           SumAxis(buffer, 2) \div Len(buffer),
           SumAxis(buffer, 3) \div Len(buffer)>>

\* ------------------------------------------------ eye_contact_monitor.py

Clamp(lo, hi, x) == IF x < lo THEN lo ELSE IF x > hi THEN hi ELSE x

\* calculate_gaze_direction: the offset of the iris centre from the face
\* centre, each component clamped to [-1, 1]
calculate_gaze_direction(raw_gaze) ==
    <<Clamp(-1000, 1000, raw_gaze[1]), Clamp(-1000, 1000, raw_gaze[2])>>

\* estimate_head_pose: <<pitch, yaw, roll>> of the frame, in angle units
estimate_head_pose(f) ==
    <<f.pose[1] * AngleScale, f.pose[2] * AngleScale, f.pose[3] * AngleScale>>

\* detect_eye_contact
detect_eye_contact(head_pitch, head_yaw, head_roll, gaze_x, gaze_y) ==
    LET head_forward == Abs(head_yaw) < MONITOR_THRESHOLD_YAW * AngleScale
                        /\ Abs(head_pitch) < MONITOR_THRESHOLD_PITCH * AngleScale
        gaze_forward == Abs(gaze_x) < MONITOR_GAZE_THRESHOLD
                        /\ Abs(gaze_y) < MONITOR_GAZE_THRESHOLD
    IN  IF Abs(gaze_x) > GAZE_SANITY_BOUND \/ Abs(gaze_y) > GAZE_SANITY_BOUND
        THEN head_forward
        ELSE head_forward /\ gaze_forward

\* The module globals of eye_contact_monitor.py and main's angle_buffer and
\* frame_count, before the first loop iteration.
MonitorGlobals ==
    [TOTAL_BLINKS |-> 0,
     EYES_BLINK_FRAME_COUNTER |-> 0,
     initial_pitch |-> None,
     initial_yaw |-> None,
     initial_roll |-> None,
     calibrated |-> FALSE,
     is_eye_contact |-> FALSE,
     total_eye_contact_time |-> 0,
     eye_contact_start_time |-> None,
     angle_buffer |-> << >>,
     frame_count |-> 0]

\* What cap.read() and the face mesh give one loop iteration:
\*   "reconnect"  no frame grabbed, the camera reopened (continue)
\*   "lost"       no frame grabbed, the camera could not be reopened (break)
\*   "noface"     a frame without a face
\*   "face"       a frame with a face: its blink ratio (hundredths), raw head
\*                pose (degrees) and raw gaze offset (thousandths)
MonitorPoses == {<<0, 0, 0>>, <<40, 20, 10>>}

\* The capture loop is run on open eyes: a ratio above BLINK_THRESHOLD.
MonitorRatios == {60}

MonitorRawGazes == {<<0, 0>>, <<3000, -600>>}

MonitorFrames ==
    [kind : {"reconnect", "lost", "noface"}, ratio : {100}, pose : {<<0, 0, 0>>},
     gaze : {<<0, 0>>}]
    \cup [kind : {"face"}, ratio : MonitorRatios, pose : MonitorPoses,
          gaze : MonitorRawGazes]

\* cv.waitKey: no key, or one of the keys main handles
Keys == {"", "c", "r", "q"}

\* BlinkDetection counting every dip, however short.
BlinkDetection_AnyDip(m, ratio) ==
    IF ratio <= BLINK_THRESHOLD
    THEN [m EXCEPT !.EYES_BLINK_FRAME_COUNTER = @ + 1]
    ELSE [m EXCEPT !.TOTAL_BLINKS =
                       IF m.EYES_BLINK_FRAME_COUNTER > 0 THEN @ + 1 ELSE @,
                   !.EYES_BLINK_FRAME_COUNTER = 0]

\* main, "Blink detection"
BlinkDetection(m, ratio) ==
    IF ratio <= BLINK_THRESHOLD
    THEN [m EXCEPT !.EYES_BLINK_FRAME_COUNTER = @ + 1]
    ELSE [m EXCEPT !.TOTAL_BLINKS =
                       IF m.EYES_BLINK_FRAME_COUNTER > EYE_AR_CONSEC_FRAMES
                       THEN @ + 1 ELSE @,
                   !.EYES_BLINK_FRAME_COUNTER = 0]

\* main, "Initial calibration": the first smoothed pose after the warm-up
InitialCalibration(m, pose) ==
    IF m.initial_pitch = None /\ m.frame_count > WarmupFrames
    THEN [m EXCEPT !.initial_pitch = Some(pose[1]),
                   !.initial_yaw = Some(pose[2]),
                   !.initial_roll = Some(pose[3]),
                   !.calibrated = TRUE]
    ELSE m

\* main, "Adjust angles based on calibration"
AdjustAngles(m, pose) ==
    IF m.calibrated
    THEN <<pose[1] - m.initial_pitch[1],
           pose[2] - m.initial_yaw[1],
           pose[3] - m.initial_roll[1]>>
    ELSE pose

\* UpdateEyeContact adding the elapsed time on every frame of a contact, not
\* only on the frame that ends it.
UpdateEyeContact_EveryFrame(m, current_eye_contact, now) ==
    IF m.is_eye_contact /\ m.eye_contact_start_time # None
    THEN [m EXCEPT !.total_eye_contact_time = @ + (now - m.eye_contact_start_time[1]),
                   !.eye_contact_start_time = Some(now),
                   !.is_eye_contact = current_eye_contact]
    ELSE [m EXCEPT !.is_eye_contact = current_eye_contact,
                   !.eye_contact_start_time =
                       IF current_eye_contact THEN Some(now) ELSE @]

\* UpdateEyeContact restarting the interval on every frame in contact.
UpdateEyeContact_RestartsInterval(m, current_eye_contact, now) ==
    IF current_eye_contact
    THEN [m EXCEPT !.is_eye_contact = TRUE,
                   !.eye_contact_start_time = Some(now)]
    ELSE IF m.is_eye_contact
    THEN [m EXCEPT !.total_eye_contact_time =
                       IF m.eye_contact_start_time # None
                       THEN @ + (now - m.eye_contact_start_time[1])
                       ELSE @,
                   !.is_eye_contact = FALSE]
    ELSE m

\* main, "Update eye contact state and timing", now = time.time()
UpdateEyeContact(m, current_eye_contact, now) ==
    IF current_eye_contact # m.is_eye_contact
    THEN IF current_eye_contact
         THEN [m EXCEPT !.is_eye_contact = TRUE,
                        !.eye_contact_start_time = Some(now)]
         ELSE [m EXCEPT !.total_eye_contact_time =
                            IF m.eye_contact_start_time # None
                            THEN @ + (now - m.eye_contact_start_time[1])
                            ELSE @,
                        !.is_eye_contact = FALSE]
    ELSE m

\* draw_detection_info: the status line and the figures drawn on the frame;
\* face and calibrated record that a face was processed and whether the
\* baseline had been subtracted from the pose drawn
draw_detection_info(eye_contact, pose, gaze, blink_count, total_time, was_calibrated) ==
    [status |-> IF eye_contact THEN "EYE CONTACT: YES" ELSE "EYE CONTACT: NO",
     face |-> TRUE,
     calibrated |-> was_calibrated,
     pitch |-> pose[1], yaw |-> pose[2], roll |-> pose[3],
     gaze_x |-> gaze[1], gaze_y |-> gaze[2],
     blink_count |-> blink_count,
     total_eye_contact_time |-> total_time]

\* main, the else branch of "if results.multi_face_landmarks": nothing but
\* the warning is drawn
NoFaceDrawn ==
    [status |-> "NO FACE DETECTED", face |-> FALSE, calibrated |-> FALSE,
     pitch |-> 0, yaw |-> 0, roll |-> 0, gaze_x |-> 0, gaze_y |-> 0,
     blink_count |-> 0, total_eye_contact_time |-> 0]

\* main, the body of "if results.multi_face_landmarks": the globals after it
\* and the values it hands to draw_detection_info and to the key handling
ProcessFace(m, f, now) ==
    LET m1 == BlinkDetection(m, f.ratio)
        gaze == calculate_gaze_direction(f.gaze)
        m2 == [m1 EXCEPT !.angle_buffer =
                   AngleBuffer_add(@, MonitorBufferSize, estimate_head_pose(f))]
        smoothed == AngleBuffer_get_average(m2.angle_buffer)
        m3 == InitialCalibration(m2, smoothed)
        pose == AdjustAngles(m3, smoothed)
        current_eye_contact ==
            detect_eye_contact(pose[1], pose[2], pose[3], gaze[1], gaze[2])
        m4 == UpdateEyeContact(m3, current_eye_contact, now)
    IN  [globals |-> m4,
         drawn |-> draw_detection_info(m4.is_eye_contact, pose, gaze,
                                       m4.TOTAL_BLINKS, m4.total_eye_contact_time,
                                       m3.calibrated)]

\* main, "Recalibrate on 'c' press": the pose of this frame, as adjusted above
Recalibrate(m, drawn) ==
    IF drawn.face
    THEN [m EXCEPT !.initial_pitch = Some(drawn.pitch),
                   !.initial_yaw = Some(drawn.yaw),
                   !.initial_roll = Some(drawn.roll),
                   !.calibrated = TRUE]
    ELSE m

\* main, "Reset statistics on 'r' press"
ResetStatistics(m) ==
    [m EXCEPT !.TOTAL_BLINKS = 0, !.total_eye_contact_time = 0]

\* main, "Handle key presses" up to the break of 'q'
HandleKey(m, drawn, key) ==
    IF key = "c" THEN Recalibrate(m, drawn)
    ELSE IF key = "r" THEN ResetStatistics(m)
    ELSE m

\* The iterations the model leaves out to stay finite.
WithinBounds(f, key) ==
    /\ clock < MaxClock
    /\ (f.kind = "face" /\ f.ratio <= BLINK_THRESHOLD)
           => monitor.EYES_BLINK_FRAME_COUNTER < MaxBlinkFrames
    /\ (f.kind = "face" /\ f.ratio > BLINK_THRESHOLD)
           => monitor.TOTAL_BLINKS < MaxBlinks
    /\ (f.kind = "face" /\ key = "c") =>
           \E d \in {ProcessFace(monitor, f, clock).drawn} :
               /\ Abs(d.pitch) <= MaxBaseline * AngleScale
               /\ Abs(d.yaw) <= MaxBaseline * AngleScale
               /\ Abs(d.roll) <= MaxBaseline * AngleScale

\* main, one iteration of "while True": the frame f is grabbed dt ticks after
\* the previous one and key is what cv.waitKey returns at its end.  The loop
\* only ever compares frame_count with the warm-up count, so the count is not
\* carried beyond it.
main_loop(f, key, dt) ==
    /\ running
    /\ WithinBounds(f, key)
    /\ clock' = clock + dt
    /\ IF f.kind = "lost"
       THEN running' = FALSE /\ UNCHANGED <<monitor, shown>>
       ELSE IF f.kind = "reconnect"
       THEN UNCHANGED <<monitor, running, shown>>
       ELSE \E r \in {IF f.kind = "face"
                       THEN ProcessFace(monitor, f, clock + dt)
                       ELSE [globals |-> monitor, drawn |-> NoFaceDrawn]} :
                /\ shown' = r.drawn
                /\ running' = (key # "q")
                /\ monitor' = IF key = "q"
                              THEN HandleKey(r.globals, r.drawn, key)
                              ELSE [HandleKey(r.globals, r.drawn, key)
                                       EXCEPT !.frame_count =
                                           IF @ > WarmupFrames THEN @ ELSE @ + 1]
    /\ UNCHANGED <<web_vars, buffer_vars, score_vars, gaze_vars, gesture_vars, analysis_vars, auth_vars, call_vars>>

\* ------------------------------------------------------ ModelGestures.py

\* Times are in tenths of a second, x positions in hundredths of the frame
\* width, speeds in hundredths of the width per second.
HISTORY_SECONDS == 4

SWIPE_MIN_DELTA == 20

SWIPE_MIN_SPEED == 80

COOLDOWN_SECS == 15

\* time.time() when main starts: long after the epoch
GestureStart == 100

\* main, "State"
GestureState ==
    [control_on |-> TRUE, last_toggle |-> 0, last_action |-> 0, x_history |-> << >>]

\* detect_swipe_fallback: "" stands for None.  dt = max(1e-6, t1 - t0): with
\* both samples in one tick the speed is above any threshold.
detect_swipe_fallback(x_hist) ==
    IF Len(x_hist) < 3
    THEN ""
    ELSE LET dt == x_hist[Len(x_hist)][1] - x_hist[1][1]
             delta == x_hist[Len(x_hist)][2] - x_hist[1][2]
         IN  IF Abs(delta) >= SWIPE_MIN_DELTA
                /\ (dt = 0 \/ Abs(delta) * 10 >= SWIPE_MIN_SPEED * dt)
             THEN IF delta > 0 THEN "Swipe_Right" ELSE "Swipe_Left"
             ELSE ""

\* main, "trim history": drop the samples older than the cutoff
RECURSIVE TrimHistory(_, _)
TrimHistory(x_history, cutoff) ==
    IF x_history # << >> /\ x_history[1][1] < cutoff
    THEN TrimHistory(Tail(x_history), cutoff)
    ELSE x_history

\* main, "Control On with Thumb_Up" and "Control Off with Thumb_Down"
Toggle(g, top_label, now) ==
    LET g1 == IF top_label = "Thumb_Up" /\ now - g.last_toggle > 10
              THEN [g EXCEPT !.control_on = TRUE, !.last_toggle = now]
              ELSE g
    IN  IF top_label = "Thumb_Down" /\ now - g1.last_toggle > 10
        THEN [g1 EXCEPT !.control_on = FALSE, !.last_toggle = now]
        ELSE g1

\* The cooldown test measuring from the last toggle.
CooldownElapsed_SinceToggle(g, now) == now - g.last_toggle > COOLDOWN_SECS

\* main, the test (time.time() - last_action) > COOLDOWN_SECS
CooldownElapsed(g, now) == now - g.last_action > COOLDOWN_SECS

\* main, "Slide navigation": the state after it, the key pressed ("" for
\* none) and the status.
SlideNavigation(g, top_label, landmarks, status, now) ==
    IF ~(g.control_on /\ CooldownElapsed(g, now))
    THEN [state |-> g, key |-> "", status |-> status]
    ELSE IF top_label = "Swipe_Left"
    THEN [state |-> [g EXCEPT !.last_action = now], key |-> "right",
          status |-> "Model: Swipe_Left -> Next"]
    ELSE IF top_label = "Swipe_Right"
    THEN [state |-> [g EXCEPT !.last_action = now], key |-> "left",
          status |-> "Model: Swipe_Right -> Prev"]
    ELSE IF landmarks = None
    THEN [state |-> g, key |-> "", status |-> status]
    ELSE LET x_history ==
                 TrimHistory(Append(g.x_history, <<now, landmarks[1]>>),
                             now - HISTORY_SECONDS)
             g1 == [g EXCEPT !.x_history = x_history]
             swipe == detect_swipe_fallback(x_history)
         IN  IF swipe = "Swipe_Left"
             THEN [state |-> [g1 EXCEPT !.last_action = now], key |-> "right",
                   status |-> "FB: Swipe_Left -> Next"]
             ELSE IF swipe = "Swipe_Right"
             THEN [state |-> [g1 EXCEPT !.last_action = now], key |-> "left",
                   status |-> "FB: Swipe_Right -> Prev"]
             ELSE [state |-> g1, key |-> "", status |-> status]

\* What the recognizer gives one frame: the top label ("" for none) and the
\* index fingertip x of the first hand (None without a hand).
GestureFrames ==
    {[top_label |-> "", landmarks |-> None]}
        \cup [top_label : {"Thumb_Up", "Thumb_Down", "Swipe_Left", "Swipe_Right"},
              landmarks : {Some(50)}]
        \cup [top_label : {"", "Pointing_Up"}, landmarks : {Some(20), Some(50)}]

\* ---------------------------------------------------- speech_analyzer.py

\* The weights of calculate_engagement_score, in hundredths.
eye_weight == 35

speech_weight == 35

rate_weight == 15

voice_weight == 15

\* calculate_engagement_score, "Normalize speaking rate": points lost twice
\* as fast as the rate leaves 135 words per minute
rate_score(speaking_rate) ==
    Max(0, Min(100, 100 - Abs(speaking_rate - 135) * 2))

\* calculate_engagement_score without its two clamps.
calculate_engagement_score_NoClamp(eye_contact_ratio, speech_accuracy, speaking_rate, voice_factor) ==
    eye_contact_ratio * eye_weight
        + speech_accuracy * speech_weight
        + (100 - Abs(speaking_rate - 135) * 2) * rate_weight
        + voice_factor * voice_weight

\* calculate_engagement_score weighting the four terms equally.
calculate_engagement_score_EqualWeights(eye_contact_ratio, speech_accuracy, speaking_rate, voice_factor) ==
    LET engagement == eye_contact_ratio * 25
                      + speech_accuracy * 25
                      + rate_score(speaking_rate) * 25
                      + voice_factor * 25
    IN  Min(100 * 100, Max(0, engagement))

\* calculate_engagement_score.  eye_contact_ratio and voice_factor are in
\* hundredths, speech_accuracy in points, speaking_rate in words per minute;
\* the score returned is in hundredths of a point.
calculate_engagement_score(eye_contact_ratio, speech_accuracy, speaking_rate, voice_factor) ==
    LET engagement == eye_contact_ratio * eye_weight
                      + speech_accuracy * speech_weight
                      + rate_score(speaking_rate) * rate_weight
                      + voice_factor * voice_weight
    IN  Min(100 * 100, Max(0, engagement))

\* calculate_engagement_score on finer arguments: eye_contact_ratio and
\* voice_factor in 1/(100 * unit), speech_accuracy in 1/unit of a point; the
\* score returned is in 1/(100 * unit) of a point.
calculate_engagement_score_fine(unit, eye_contact_ratio, speech_accuracy, speaking_rate, voice_factor) ==
    LET engagement == eye_contact_ratio * eye_weight
                      + speech_accuracy * speech_weight
                      + rate_score(speaking_rate) * rate_weight * unit
                      + voice_factor * voice_weight
    IN  Min(100 * 100 * unit, Max(0, engagement))

\* ---------------------------------------------------- socket handlers, app.py

\* A process_frame call not yet received.
IdleCall ==
    [pc |-> "idle", session_id |-> "", current_eye_contact |-> FALSE, loaded |-> 0,
     counted |-> FALSE, gaze |-> <<0, 0>>, pose |-> <<0, 0, 0>>]

\* session_id in active_sessions and active_sessions[session_id]['is_active']
IsActive(session_id) ==
    session_id \in DOMAIN active_sessions /\ active_sessions[session_id].is_active

\* The socket event handled, with its payload.
Request(event, session_id, image_data) ==
    [event |-> event, session_id |-> session_id, image_data |-> image_data]

NoImage == [kind |-> "none", pitch |-> 0, yaw |-> 0, gaze_x |-> 0]

\* The window sizes an AngleBuffer on its own is built with.
BufferSizes == 1..MonitorBufferSize

\* The triples added to it: <<pitch, yaw, roll>> in angle units.
BufferAngles ==
    {<<0, 0, 0>>,
     <<10 * AngleScale, -20 * AngleScale, 30 * AngleScale>>,
     <<-4 * AngleScale, 7 * AngleScale, AngleScale>>}

Init ==
    /\ eye_tracker = AdvancedEyeTracker
    /\ active_sessions = [s \in {} |-> [is_active |-> FALSE]]
    /\ request = Request("connect", "", NoImage)
    /\ emitted = <<[event |-> "connected"]>>
    /\ monitor = MonitorGlobals
    /\ clock = 0
    /\ running = TRUE
    /\ shown = NoFaceDrawn
    /\ angle_buffer = AngleBuffer(MonitorBufferSize)
    /\ pushed = << >>
    /\ averaged = None
    /\ engagement_inputs = <<0, 0, 0, 0>>
    /\ overall_engagement = None
    /\ gaze_args = None
    /\ gaze_returned = None
    /\ gestures = GestureState
    /\ gesture_clock = GestureStart
    /\ frames_read = 0
    /\ swipes = << >>
    /\ analysis = [s \in SessionIds |-> None]
    /\ users = [e \in {} |-> None]
    /\ issued = {}
    /\ logins = 0
    /\ api = [endpoint |-> "", authorization |-> None, status |-> 0, user |-> None]
    /\ calls = [c \in 1..MaxCalls |-> IdleCall]

\* handle_start_session
handle_start_session(session_id) ==
    /\ active_sessions' =
           [s \in DOMAIN active_sessions \cup {session_id} |->
               IF s = session_id THEN [is_active |-> TRUE] ELSE active_sessions[s]]
    /\ eye_tracker' = reset_session(eye_tracker)
    /\ request' = Request("start_session", session_id, NoImage)
    /\ emitted' = <<[event |-> "session_started", session_id |-> session_id]>>
    /\ analysis' = [analysis EXCEPT ![session_id] = None]
    /\ UNCHANGED <<monitor_vars, buffer_vars, score_vars, gaze_vars, gesture_vars, auth_vars, call_vars>>

\* handle_process_frame testing only that the session id is known.
handle_process_frame_IgnoresStop(session_id, image_data) ==
    /\ image_data.kind = "face" => eye_tracker.total_frames < MaxFrames
    /\ request' = Request("process_frame", session_id, image_data)
    /\ UNCHANGED <<active_sessions, monitor_vars, buffer_vars, score_vars, gaze_vars, gesture_vars, analysis_vars, auth_vars, call_vars>>
    /\ IF session_id \notin DOMAIN active_sessions
       THEN /\ emitted' = << >>
            /\ UNCHANGED eye_tracker
       ELSE LET r == process_frame(eye_tracker, image_data)
            IN  /\ eye_tracker' = r.tracker
                /\ emitted' = <<[event |-> "real_time_analysis",
                                 session_id |-> session_id,
                                 analysis |-> r.analysis]>>

\* handle_process_frame
handle_process_frame(session_id, image_data) ==
    /\ image_data.kind = "face" => eye_tracker.total_frames < MaxFrames
    /\ request' = Request("process_frame", session_id, image_data)
    /\ UNCHANGED <<active_sessions, monitor_vars, buffer_vars, score_vars, gaze_vars, gesture_vars, analysis_vars, auth_vars, call_vars>>
    /\ IF ~IsActive(session_id)
       THEN /\ emitted' = << >>
            /\ UNCHANGED eye_tracker
       ELSE LET r == process_frame(eye_tracker, image_data)
            IN  /\ eye_tracker' = r.tracker
                /\ emitted' = <<[event |-> "real_time_analysis",
                                 session_id |-> session_id,
                                 analysis |-> r.analysis]>>

\* handle_stop_session
handle_stop_session(session_id) ==
    /\ request' = Request("stop_session", session_id, NoImage)
    /\ UNCHANGED <<eye_tracker, monitor_vars, buffer_vars, score_vars, gaze_vars, gesture_vars, analysis_vars, auth_vars, call_vars>>
    /\ IF session_id \in DOMAIN active_sessions
       THEN /\ active_sessions' =
                   [active_sessions EXCEPT ![session_id].is_active = FALSE]
            /\ emitted' = <<[event |-> "session_stopped",
                             session_id |-> session_id,
                             eye_contact_score |-> eye_tracker.eye_contact_percentage]>>
       ELSE /\ emitted' = << >>
            /\ UNCHANGED active_sessions

\* handle_calibrate_tracker
handle_calibrate_tracker ==
    /\ eye_tracker' = calibrate_head_pose(eye_tracker)
    /\ request' = Request("calibrate_tracker", "", NoImage)
    /\ emitted' = <<[event |-> "calibration_complete"]>>
    /\ UNCHANGED <<active_sessions, monitor_vars, buffer_vars, score_vars, gaze_vars, gesture_vars, analysis_vars, auth_vars, call_vars>>

\* handle_reset_tracker
handle_reset_tracker ==
    /\ eye_tracker' = reset_session(eye_tracker)
    /\ request' = Request("reset_tracker", "", NoImage)
    /\ emitted' = <<[event |-> "tracker_reset"]>>
    /\ UNCHANGED <<active_sessions, monitor_vars, buffer_vars, score_vars, gaze_vars, gesture_vars, analysis_vars, auth_vars, call_vars>>

\* The web tracker: the socket events arrive one at a time.
Next ==
    \/ \E s \in SessionIds : handle_start_session(s)
    \/ \E s \in SessionIds, i \in Images : handle_process_frame(s, i)
    \/ \E s \in SessionIds : handle_stop_session(s)
    \/ handle_calibrate_tracker
    \/ handle_reset_tracker

Spec == Init /\ [][Next]_vars

\* The standalone monitor: the capture loop.
MonitorNext ==
    \E f \in MonitorFrames, key \in Keys, dt \in {0, 1} : main_loop(f, key, dt)

MonitorSpec == Init /\ [][MonitorNext]_vars

\* The standalone monitor fed frames only: no key is pressed.
ReadingsNext ==
    \E f \in MonitorFrames, dt \in {0, 1} : main_loop(f, "", dt)

ReadingsSpec == Init /\ [][ReadingsNext]_vars

\* The standalone monitor fed frames whose eyes open and close, no key
\* pressed: blink ratios at the threshold (closed) and above it (open).
BlinkRatios == {BLINK_THRESHOLD, 60}

BlinkFrames ==
    [kind : {"noface"}, ratio : {100}, pose : {<<0, 0, 0>>}, gaze : {<<0, 0>>}]
    \cup [kind : {"face"}, ratio : BlinkRatios, pose : MonitorPoses,
          gaze : {<<0, 0>>}]

BlinkNext ==
    \E f \in BlinkFrames, dt \in {0, 1} : main_loop(f, "", dt)

BlinkSpec == Init /\ [][BlinkNext]_vars

\* AngleBuffer.add on the object on its own
add(angles) ==
    /\ Len(pushed) < MaxPushes
    /\ angle_buffer' =
           [angle_buffer EXCEPT !.buffer = AngleBuffer_add(@, angle_buffer.size, angles)]
    /\ pushed' = Append(pushed, angles)
    /\ averaged' = None
    /\ UNCHANGED <<web_vars, monitor_vars, score_vars, gaze_vars, gesture_vars, analysis_vars, auth_vars, call_vars>>

\* AngleBuffer.get_average on the object on its own
get_average ==
    /\ averaged' = Some(AngleBuffer_get_average(angle_buffer.buffer))
    /\ UNCHANGED <<angle_buffer, pushed, web_vars, monitor_vars, score_vars, gaze_vars, gesture_vars, analysis_vars, auth_vars, call_vars>>

\* An AngleBuffer of any of the window sizes, added to and averaged in any
\* order.
BufferNext ==
    \/ \E angles \in BufferAngles : add(angles)
    \/ get_average

\* The object is built with any of the window sizes.
BufferInit ==
    /\ eye_tracker = AdvancedEyeTracker
    /\ active_sessions = [s \in {} |-> [is_active |-> FALSE]]
    /\ request = Request("connect", "", NoImage)
    /\ emitted = <<[event |-> "connected"]>>
    /\ monitor = MonitorGlobals
    /\ clock = 0
    /\ running = TRUE
    /\ shown = NoFaceDrawn
    /\ angle_buffer \in {AngleBuffer(size) : size \in BufferSizes}
    /\ pushed = << >>
    /\ averaged = None
    /\ engagement_inputs = <<0, 0, 0, 0>>
    /\ overall_engagement = None
    /\ gaze_args = None
    /\ gaze_returned = None
    /\ gestures = GestureState
    /\ gesture_clock = GestureStart
    /\ frames_read = 0
    /\ swipes = << >>
    /\ analysis = [s \in SessionIds |-> None]
    /\ users = [e \in {} |-> None]
    /\ issued = {}
    /\ logins = 0
    /\ api = [endpoint |-> "", authorization |-> None, status |-> 0, user |-> None]
    /\ calls = [c \in 1..MaxCalls |-> IdleCall]

BufferSpec == BufferInit /\ [][BufferNext]_vars

\* The declared domains of the four arguments: eye_contact_ratio in [0, 1],
\* speech_accuracy in [0, 100], speaking_rate >= 0, voice_factor in [0, 1].
SpeakingRates == {wpm \in 0..MaxWpm : wpm % 5 = 0}

EngagementInputs == {0, 50, 100} \X {0, 50, 100} \X SpeakingRates \X {0, 50, 100}

\* One call of calculate_engagement_score
score(inputs) ==
    /\ engagement_inputs' = inputs
    /\ overall_engagement' =
           Some(calculate_engagement_score(inputs[1], inputs[2], inputs[3], inputs[4]))
    /\ UNCHANGED <<web_vars, monitor_vars, buffer_vars, gaze_vars, gesture_vars, analysis_vars, auth_vars, call_vars>>

\* The score function called any number of times.
ScoreNext == \E inputs \in EngagementInputs : score(inputs)

ScoreSpec == Init /\ [][ScoreNext]_vars

\* The eye corners of a frame: eyes 10 or 20 pixels wide, or of zero width;
\* every quotient of the gaze computation is exact on them.
GazeLandmarks ==
    [left_outer : {<<0, 0>>}, left_inner : {<<0, 0>>, <<10, 0>>, <<20, 0>>},
     right_outer : {<<100, 0>>}, right_inner : {<<100, 0>>, <<110, 0>>, <<120, 0>>}]

\* The iris centres: at a corner, inside the eye, or beyond the inner corner.
LeftCenters == {<<0, 0>>, <<5, 0>>, <<10, 0>>, <<30, 0>>}

RightCenters == {<<100, 0>>, <<105, 0>>, <<110, 0>>, <<130, 0>>}

\* One call of calculate_gaze_direction_simple
gaze(landmarks, left_center, right_center) ==
    /\ gaze_args' = <<landmarks, left_center, right_center>>
    /\ gaze_returned' = Some(gaze_direction_simple(landmarks, left_center, right_center))
    /\ UNCHANGED <<web_vars, monitor_vars, buffer_vars, score_vars, gesture_vars, analysis_vars, auth_vars, call_vars>>

\* The gaze computation called any number of times.
GazeNext ==
    \E landmarks \in GazeLandmarks, left_center \in LeftCenters, right_center \in RightCenters :
        gaze(landmarks, left_center, right_center)

GazeSpec == Init /\ [][GazeNext]_vars

\* ModelGestures.main, one iteration of "while True" on a frame grabbed dt
\* after the last one; every time.time() of the iteration falls in one tick.
\* The pointer position moved in pointer mode is read by nothing else and is
\* not carried.
gesture_loop(f, dt) ==
    /\ frames_read < MaxGestureFrames
    /\ gesture_clock + dt <= GestureStart + MaxGestureTicks
    /\ LET now == gesture_clock + dt
           g1 == Toggle(gestures, f.top_label, now)
           status == IF g1.control_on /\ f.top_label = "Pointing_Up" /\ f.landmarks # None
                     THEN "Pointer" ELSE "No hand"
           r == SlideNavigation(g1, f.top_label, f.landmarks, status, now)
           model_swipe == g1.control_on /\ f.top_label \in {"Swipe_Left", "Swipe_Right"}
       IN  /\ gestures' = r.state
           /\ gesture_clock' = now
           /\ frames_read' = frames_read + 1
           /\ swipes' = IF r.key # "" \/ model_swipe
                        THEN Append(swipes, [at |-> now, pressed |-> r.key,
                                             status |-> r.status])
                        ELSE swipes
    /\ UNCHANGED <<web_vars, monitor_vars, buffer_vars, score_vars, gaze_vars, analysis_vars, auth_vars, call_vars>>

\* The gesture controller fed frames.
GestureNext ==
    \E f \in GestureFrames, dt \in {1, COOLDOWN_SECS} : gesture_loop(f, dt)

GestureSpec == Init /\ [][GestureNext]_vars

\* What speech_data holds for a session when it is analyzed: no analysis, or
\* one with an accuracy_score (points) and a wpm.
SpeechAnalyses ==
    {None, Some([accuracy_score |-> 100, wpm |-> 135]),
     Some([accuracy_score |-> 50, wpm |-> 100])}

\* The session's voice_data then: <<volume, pitch>> points.  None, a steady
\* volume over a wide pitch range, or a varying volume over a narrower one.
VoiceData ==
    {<< >>, <<<<50, 100>>, <<50, 300>>>>, <<<<40, 100>>, <<60, 200>>>>}

RECURSIVE SumOf(_, _)
SumOf(points, k) ==
    IF points = << >> THEN 0 ELSE points[1][k] + SumOf(Tail(points), k)

RECURSIVE SumSquaresOf(_, _)
SumSquaresOf(points, k) ==
    IF points = << >> THEN 0 ELSE points[1][k] * points[1][k] + SumSquaresOf(Tail(points), k)

\* handle_analyze_session, voice_metrics: the variance of the volumes, which
\* is sum(v^2)/n - (sum(v)/n)^2 (whole on VoiceData), and the pitch range
voice_metrics(voice_data) ==
    IF voice_data = << >>
    THEN None
    ELSE LET n == Len(voice_data)
             pitches == {voice_data[i][2] : i \in 1..n}
         IN  Some([volume_variance |->
                       (n * SumSquaresOf(voice_data, 1)
                            - SumOf(voice_data, 1) * SumOf(voice_data, 1)) \div (n * n),
                   pitch_range |->
                       (CHOOSE p \in pitches : \A q \in pitches : q <= p)
                           - (CHOOSE p \in pitches : \A q \in pitches : p <= q)])

\* handle_analyze_session, "Include voice factors in engagement calculation":
\* the voice factor in 1/10000
voice_factor_of(metrics) ==
    IF metrics = None
    THEN 0
    ELSE LET volume_consistency == 10000 - Min(metrics[1].volume_variance * 10, 10000)
             pitch_variation == Min(metrics[1].pitch_range * 50, 10000)
         IN  (volume_consistency + pitch_variation) \div 2

\* handle_analyze_session, "Calculate overall engagement": combined_analysis.
\* eye_contact_score is in tenths of a percent, so eye_ratio is 10 times it
\* in 1/10000; speech_acc = accuracy_score / 100 is accuracy_score in 1/100;
\* overall_engagement is in 1/10000 of a point.
combined_analysis(t, speech_analysis, voice_data) ==
    LET eye_analysis == get_comprehensive_analysis(t)
        metrics == voice_metrics(voice_data)
        eye_ratio == eye_analysis.core_metrics.eye_contact_score * 10
        speech_acc == IF speech_analysis # None THEN speech_analysis[1].accuracy_score ELSE 0
        wpm == IF speech_analysis # None THEN speech_analysis[1].wpm ELSE 0
        voice_factor == voice_factor_of(metrics)
    IN  [core_metrics |-> eye_analysis.core_metrics,
         speech_metrics |-> speech_analysis,
         voice_metrics |-> metrics,
         overall_engagement |->
             calculate_engagement_score_fine(100, eye_ratio, speech_acc, wpm, voice_factor)]

\* handle_analyze_session, with what speech_data and the session's voice_data
\* hold at the time.  The writes to the database and the dashboard that
\* follow the store are not carried.
handle_analyze_session(session_id, speech_analysis, voice_data) ==
    /\ request' = Request("analyze_session", session_id, NoImage)
    /\ UNCHANGED <<eye_tracker, active_sessions, monitor_vars, buffer_vars, score_vars, gaze_vars, gesture_vars, auth_vars, call_vars>>
    /\ IF session_id \in DOMAIN active_sessions
       THEN LET combined == combined_analysis(eye_tracker, speech_analysis, voice_data)
            IN  /\ analysis' = [analysis EXCEPT ![session_id] = Some(combined)]
                /\ emitted' = <<[event |-> "analysis_complete",
                                 session_id |-> session_id,
                                 analysis |-> combined]>>
       ELSE /\ emitted' = << >>
            /\ UNCHANGED analysis

\* The frames sent while sessions are analyzed: no face, or a face looking
\* at the camera or turned away.
AnalyzeImages ==
    {i \in Images : i.kind \in {"noface", "face"} /\ i.pitch = 0 /\ i.gaze_x = 0}

\* One session started, fed frames, stopped and analyzed.
AnalyzeNext ==
    \E s \in {"s1"} :
        \/ handle_start_session(s)
        \/ \E i \in AnalyzeImages : handle_process_frame(s, i)
        \/ handle_stop_session(s)
        \/ \E speech \in SpeechAnalyses, voice \in VoiceData :
               handle_analyze_session(s, speech, voice)

AnalyzeSpec == Init /\ [][AnalyzeNext]_vars

\* Strings that matter to the token check are kept as the pieces between
\* their underscores: "jo_doe@x.io" is <<"jo", "doe@x.io">>.
Emails == {<<"ann@x.io">>, <<"bob@x.io">>, <<"jo", "doe@x.io">>}

\* '@' in piece
HasAt(piece) == piece \in {"ann@x.io", "bob@x.io", "doe@x.io"}

Passwords == {"pw1", "pw2"}

\* bcrypt.hashpw and bcrypt.checkpw: a hash matches the password it was made
\* from and no other
hashpw(password) == <<"bcrypt", password>>

checkpw(password, password_hash) == password_hash = hashpw(password)

\* login, "Simple token": f"token_{email}_{datetime.now().timestamp()}", the
\* timestamp growing with every login
SimpleToken(email, n) == <<"token">> \o email \o <<ToString(n)>>

\* Authorization headers that no login returned: the one of
\* test_ai_recommendations.py, a bare email, and a token made up for an email.
ForgedTokens ==
    {<<"invalid", "token", "123">>, <<"ann@x.io">>, <<"token", "bob@x.io", "0">>}

Answer(endpoint, authorization, status, user) ==
    [endpoint |-> endpoint, authorization |-> authorization, status |-> status, user |-> user]

\* register
register(email, password) ==
    /\ IF email \in DOMAIN users
       THEN /\ api' = Answer("register", None, 409, None)
            /\ UNCHANGED users
       ELSE /\ users' = [e \in DOMAIN users \cup {email} |->
                            IF e = email THEN hashpw(password) ELSE users[e]]
            /\ api' = Answer("register", None, 200, Some(email))
    /\ UNCHANGED <<issued, logins>>
    /\ UNCHANGED <<web_vars, monitor_vars, buffer_vars, score_vars, gaze_vars, gesture_vars, analysis_vars, call_vars>>

\* login: the answer carries the token returned
login(email, password) ==
    /\ logins < MaxLogins
    /\ IF email \notin DOMAIN users
       THEN /\ api' = Answer("login", None, 401, None)
            /\ UNCHANGED <<issued, logins>>
       ELSE IF ~checkpw(password, users[email])
       THEN /\ api' = Answer("login", None, 401, None)
            /\ UNCHANGED <<issued, logins>>
       ELSE LET token == SimpleToken(email, logins + 1)
            IN  /\ api' = Answer("login", Some(token), 200, Some(email))
                /\ issued' = issued \cup {[token |-> token, email |-> email]}
                /\ logins' = logins + 1
    /\ UNCHANGED users
    /\ UNCHANGED <<web_vars, monitor_vars, buffer_vars, score_vars, gaze_vars, gesture_vars, analysis_vars, call_vars>>

\* get_ai_recommendations, "Get user from token": the first piece of the
\* token with an '@' in it, None when there is none
RECURSIVE user_email_of(_)
user_email_of(token) ==
    IF token = << >> THEN None
    ELSE IF HasAt(token[1]) THEN Some(<<token[1]>>)
    ELSE user_email_of(Tail(token))

\* get_ai_recommendations with the Authorization header sent (None without
\* one); answered 200 with the recommendations of user.
get_ai_recommendations(authorization) ==
    /\ api' = IF authorization = None
              THEN Answer("recommendations", authorization, 401, None)
              ELSE LET user_email == user_email_of(authorization[1])
                   IN  IF user_email = None
                       THEN Answer("recommendations", authorization, 401, None)
                       ELSE IF user_email[1] \notin DOMAIN users
                       THEN Answer("recommendations", authorization, 401, None)
                       ELSE Answer("recommendations", authorization, 200, user_email)
    /\ UNCHANGED <<users, issued, logins>>
    /\ UNCHANGED <<web_vars, monitor_vars, buffer_vars, score_vars, gaze_vars, gesture_vars, analysis_vars, call_vars>>

\* The HTTP API: users register and log in, and recommendations are asked
\* for without a header, with a token a login returned, or with a forged one.
AuthNext ==
    \/ \E email \in Emails, password \in Passwords : register(email, password)
    \/ \E email \in Emails, password \in Passwords : login(email, password)
    \/ \E authorization \in {None} \cup {Some(t) : t \in ForgedTokens \cup {i.token : i \in issued}} :
           get_ai_recommendations(authorization)

AuthSpec == Init /\ [][AuthNext]_vars

\* handle_process_frame received as call c while others may be in flight.
\* It returns at once for an inactive session and runs process_frame to its
\* end on a frame without a face; on a face it runs to "Update counters".
receive_frame(c, session_id, image_data) ==
    /\ calls[c].pc = "idle"
    /\ request' = Request("process_frame", session_id, image_data)
    /\ UNCHANGED <<active_sessions, monitor_vars, buffer_vars, score_vars, gaze_vars, gesture_vars, analysis_vars, auth_vars>>
    /\ IF ~IsActive(session_id)
       THEN /\ emitted' = << >>
            /\ calls' = [calls EXCEPT ![c].pc = "done", ![c].session_id = session_id]
            /\ UNCHANGED eye_tracker
       ELSE IF image_data.kind # "face"
       THEN LET r == process_frame(eye_tracker, image_data)
            IN  /\ eye_tracker' = r.tracker
                /\ emitted' = <<[event |-> "real_time_analysis",
                                 session_id |-> session_id,
                                 analysis |-> r.analysis]>>
                /\ calls' = [calls EXCEPT ![c].pc = "done", ![c].session_id = session_id]
       ELSE LET t1 == [eye_tracker EXCEPT !.face_detected = TRUE]
                gaze_xy == calculate_gaze_direction_simple(image_data)
                raw == estimate_head_pose_simple(image_data)
                t2 == AutoCalibrate(t1, raw)
                pose == ApplyCalibration(t2, raw)
            IN  /\ eye_tracker' = t2
                /\ emitted' = << >>
                /\ calls' = [calls EXCEPT ![c] =
                                [pc |-> "load_total", session_id |-> session_id,
                                 current_eye_contact |->
                                     detect_eye_contact_simple(pose[1], pose[2], gaze_xy[1], gaze_xy[2]),
                                 loaded |-> 0, counted |-> FALSE,
                                 gaze |-> gaze_xy, pose |-> pose]]

\* process_frame, self.total_frames += 1: the attribute is read ...
load_total_frames(c) ==
    /\ calls[c].pc = "load_total"
    /\ calls' = [calls EXCEPT ![c].pc = "store_total", ![c].loaded = eye_tracker.total_frames]
    /\ UNCHANGED <<web_vars, monitor_vars, buffer_vars, score_vars, gaze_vars, gesture_vars, analysis_vars, auth_vars>>

\* ... and written back one higher
store_total_frames(c) ==
    /\ calls[c].pc = "store_total"
    /\ eye_tracker' = [eye_tracker EXCEPT !.total_frames = calls[c].loaded + 1]
    /\ calls' = [calls EXCEPT ![c].pc = IF calls[c].current_eye_contact
                                        THEN "load_contact" ELSE "percentage",
                              ![c].counted = TRUE]
    /\ UNCHANGED <<active_sessions, request, emitted, monitor_vars, buffer_vars, score_vars, gaze_vars, gesture_vars, analysis_vars, auth_vars>>

\* process_frame, self.eye_contact_frames += 1: read ...
load_eye_contact_frames(c) ==
    /\ calls[c].pc = "load_contact"
    /\ calls' = [calls EXCEPT ![c].pc = "store_contact",
                              ![c].loaded = eye_tracker.eye_contact_frames]
    /\ UNCHANGED <<web_vars, monitor_vars, buffer_vars, score_vars, gaze_vars, gesture_vars, analysis_vars, auth_vars>>

\* ... and written back
store_eye_contact_frames(c) ==
    /\ calls[c].pc = "store_contact"
    /\ eye_tracker' = [eye_tracker EXCEPT !.eye_contact_frames = calls[c].loaded + 1]
    /\ calls' = [calls EXCEPT ![c].pc = "percentage"]
    /\ UNCHANGED <<active_sessions, request, emitted, monitor_vars, buffer_vars, score_vars, gaze_vars, gesture_vars, analysis_vars, auth_vars>>

\* process_frame, "Calculate percentage" to its return, and the emit of
\* handle_process_frame
finish_frame(c) ==
    /\ calls[c].pc = "percentage"
    /\ LET t == [eye_tracker EXCEPT
                     !.eye_contact_percentage =
                         IF eye_tracker.total_frames > 0
                         THEN <<eye_tracker.eye_contact_frames * 100, eye_tracker.total_frames>>
                         ELSE @,
                     !.landmarks_detected = TRUE]
           call == calls[c]
       IN  /\ eye_tracker' = t
           /\ emitted' = <<[event |-> "real_time_analysis",
                            session_id |-> call.session_id,
                            analysis |-> get_frame_analysis(t, call.current_eye_contact,
                                                            call.gaze[1], call.gaze[2],
                                                            call.pose[1], call.pose[2],
                                                            call.pose[3])]>>
    /\ calls' = [calls EXCEPT ![c].pc = "done"]
    /\ UNCHANGED <<active_sessions, request, monitor_vars, buffer_vars, score_vars, gaze_vars, gesture_vars, analysis_vars, auth_vars>>

\* A session is started and frames for it arrive while earlier ones are
\* still being processed: nothing in handle_process_frame or process_frame
\* makes one call wait for another.
ConcurrentNext ==
    \/ \E s \in SessionIds : s \notin DOMAIN active_sessions /\ handle_start_session(s)
    \/ \E c \in 1..MaxCalls, s \in {"s1"}, i \in AnalyzeImages : receive_frame(c, s, i)
    \/ \E c \in 1..MaxCalls :
           \/ load_total_frames(c)
           \/ store_total_frames(c)
           \/ load_eye_contact_frames(c)
           \/ store_eye_contact_frames(c)
           \/ finish_frame(c)

ConcurrentSpec == Init /\ [][ConcurrentNext]_vars

\* ------------------------------------------------------------ properties

\* The state is the one a process_frame event of an active session left.
AcceptedFrame ==
    request.event = "process_frame" /\ IsActive(request.session_id)

\* The step is the handling of a process_frame event of an active session.
AcceptingFrame ==
    request'.event = "process_frame" /\ IsActive(request'.session_id)

\* The calibration baseline of the web tracker.
Baseline(t) == <<t.initial_pitch, t.initial_yaw, t.initial_roll, t.calibrated>>

\* The session statistics and the baseline of the web tracker.
Statistics(t) ==
    <<t.total_frames, t.eye_contact_frames, t.eye_contact_percentage,
      t.TOTAL_BLINKS, Baseline(t)>>

\* C1: in the web tracker, after any sequence of process_frame, reset_session
\* and calibrate_head_pose calls, eye_contact_frames <= total_frames and the
\* eye-contact percentage lies in [0, 100].
C1_CountersBounded ==
    LET p == eye_tracker.eye_contact_percentage
    IN  /\ 0 <= eye_tracker.eye_contact_frames
        /\ eye_tracker.eye_contact_frames <= eye_tracker.total_frames
        /\ p[2] > 0
        /\ 0 <= p[1]
        /\ p[1] <= 100 * p[2]

\* Two frames, one of them with eye contact, then a recalibration.
C1_Witness ==
    /\ request.event = "calibrate_tracker"
    /\ eye_tracker.total_frames = 2
    /\ eye_tracker.eye_contact_frames = 1

\* C2: every frame submitted to process_frame increments total_frames by
\* exactly one, whether or not a face was detected in it, and
\* eye_contact_frames increments only when the frame is classified as eye
\* contact.
C2_EveryFrameCounted ==
    [][(AcceptingFrame /\ request'.image_data.kind \in {"face", "noface"}) =>
          /\ eye_tracker'.total_frames = eye_tracker.total_frames + 1
          /\ eye_tracker'.eye_contact_frames =
                 eye_tracker.eye_contact_frames
                 + (IF emitted'[1].analysis.eye_contact THEN 1 ELSE 0)]_vars

\* C3: in every reachable state of the web tracker the stored percentage
\* equals eye_contact_frames / total_frames * 100, and 0 when total_frames
\* is 0, including right after reset_session.
C3_PercentageMatches ==
    LET p == eye_tracker.eye_contact_percentage
    IN  /\ p[2] > 0
        /\ IF eye_tracker.total_frames = 0
           THEN p[1] = 0
           ELSE p[1] * eye_tracker.total_frames
                    = eye_tracker.eye_contact_frames * 100 * p[2]

\* One frame in three with eye contact: 33.3 percent.
C3_Witness ==
    /\ eye_tracker.total_frames = 3
    /\ eye_tracker.eye_contact_frames = 1
    /\ AcceptedFrame
    /\ emitted[1].analysis.eye_contact_percentage = 333

\* C4: an undecodable or corrupt image leaves total_frames,
\* eye_contact_frames, the percentage, the blink count and the calibration
\* baseline unchanged, no error is emitted, and the record returned carries
\* the statistics as they were.
C4_CorruptFrameKeepsStatistics ==
    [][(AcceptingFrame /\ request'.image_data.kind \in {"badb64", "undecodable"}) =>
          /\ Statistics(eye_tracker') = Statistics(eye_tracker)
          /\ Len(emitted') = 1
          /\ emitted'[1].event = "real_time_analysis"
          /\ emitted'[1].analysis.eye_contact_percentage =
                 RoundHalfEven(eye_tracker.eye_contact_percentage[1] * 10,
                               eye_tracker.eye_contact_percentage[2])
          /\ emitted'[1].analysis.total_eye_contact_time =
                 eye_tracker.eye_contact_frames
          /\ emitted'[1].analysis.blink_count = eye_tracker.TOTAL_BLINKS]_vars

\* A corrupt frame after two frames, one of them with eye contact: the record
\* still says 50 percent and the baseline is still set.
C4_Witness ==
    /\ AcceptedFrame
    /\ request.image_data.kind \in {"badb64", "undecodable"}
    /\ eye_tracker.total_frames = 2
    /\ eye_tracker.eye_contact_frames = 1
    /\ eye_tracker.initial_pitch # None
    /\ emitted[1].analysis.eye_contact_percentage = 500

\* C5: a session reset (reset_session, run by start_session and by
\* reset_tracker) zeroes total_frames, eye_contact_frames, the percentage
\* and the blink count and clears the calibration baseline.
C5_ResetZeroes ==
    request.event \in {"start_session", "reset_tracker"} =>
        /\ eye_tracker.total_frames = 0
        /\ eye_tracker.eye_contact_frames = 0
        /\ eye_tracker.eye_contact_percentage[1] = 0
        /\ eye_tracker.TOTAL_BLINKS = 0
        /\ Baseline(eye_tracker) = <<None, None, None, FALSE>>

\* A reset_tracker event handled while one session runs and another was
\* stopped.
C5_Witness ==
    /\ request.event = "reset_tracker"
    /\ IsActive("s1")
    /\ "s2" \in DOMAIN active_sessions
    /\ ~IsActive("s2")
    /\ eye_tracker.total_frames = 0
    /\ eye_tracker.initial_pitch = None

\* C6: once the calibration baseline is set, processing frames does not
\* change it; it changes only on an explicit command that clears the
\* calibration (calibrate_tracker, or a session reset by reset_tracker or
\* start_session).
C6_BaselineStable ==
    [][eye_tracker.initial_pitch # None =>
          /\ request'.event = "process_frame"
                 => Baseline(eye_tracker') = Baseline(eye_tracker)
          /\ Baseline(eye_tracker') # Baseline(eye_tracker)
                 => request'.event \in
                        {"calibrate_tracker", "reset_tracker", "start_session"}]_vars

\* A second frame, with another head pose than the baseline's.
C6_Witness ==
    /\ AcceptedFrame
    /\ request.image_data.kind = "face"
    /\ eye_tracker.total_frames >= 2
    /\ eye_tracker.initial_pitch = Some(0)
    /\ request.image_data.pitch = 500

C8_BaselineSubtractedOnce ==
    (AcceptedFrame /\ request.image_data.kind = "face") =>
        LET a == emitted[1].analysis
            pitch == request.image_data.pitch - eye_tracker.initial_pitch[1]
            yaw == request.image_data.yaw - eye_tracker.initial_yaw[1]
            roll == 0 - eye_tracker.initial_roll[1]
        IN  /\ eye_tracker.calibrated
            /\ a.head_pose = [pitch |-> pitch, yaw |-> yaw, roll |-> roll]
            /\ a.eye_contact =
                   (/\ Abs(yaw) < EYE_CONTACT_THRESHOLD_YAW
                    /\ Abs(pitch) < EYE_CONTACT_THRESHOLD_PITCH
                    /\ Abs(a.gaze_direction.x) < GAZE_THRESHOLD
                    /\ Abs(a.gaze_direction.y) < GAZE_THRESHOLD)

\* A raw pitch of 50 degrees against a baseline of 30: 20 degrees are
\* reported and eye contact is found, which the raw pitch would not give.
C8_Witness ==
    /\ AcceptedFrame
    /\ request.image_data.kind = "face"
    /\ request.image_data.pitch = 500
    /\ eye_tracker.initial_pitch = Some(300)
    /\ emitted[1].analysis.head_pose.pitch = 200
    /\ emitted[1].analysis.eye_contact

\* C9: while no calibration baseline has been established, the classifier
\* gives no eye-contact verdict computed from the uncalibrated pose: the
\* frame is reported as uncalibrated.
C9_UncalibratedNotClassified ==
    (shown.face /\ ~shown.calibrated) =>
        shown.status \notin {"EYE CONTACT: YES", "EYE CONTACT: NO"}

\* C10: the classifier reports contact for a frame exactly when the
\* calibrated |yaw| and |pitch| are each below the head-pose threshold and
\* the gaze |x| and |y| are each below the gaze threshold.
C10_ContactIffBothConditions ==
    (AcceptedFrame /\ request.image_data.kind = "face") =>
        LET a == emitted[1].analysis
        IN  a.eye_contact <=>
                /\ Abs(a.head_pose.yaw) < EYE_CONTACT_THRESHOLD_YAW
                /\ Abs(a.head_pose.pitch) < EYE_CONTACT_THRESHOLD_PITCH
                /\ Abs(a.gaze_direction.x) < GAZE_THRESHOLD
                /\ Abs(a.gaze_direction.y) < GAZE_THRESHOLD

\* The head is forward and the gaze x is exactly at the threshold: no
\* contact, on the gaze condition alone.
C10_Witness ==
    /\ AcceptedFrame
    /\ request.image_data.kind = "face"
    /\ emitted[1].analysis.head_pose.pitch = 0
    /\ emitted[1].analysis.head_pose.yaw = 0
    /\ emitted[1].analysis.gaze_direction.x = 800
    /\ ~emitted[1].analysis.eye_contact

\* C11: when the gaze magnitude of a frame exceeds the sanity bound
\* (|x| > 2 or |y| > 2), the classifier ignores the gaze term: the verdict
\* of the frame is the head-pose condition alone.
C11_CorruptGazeIgnored ==
    (AcceptedFrame /\ request.image_data.kind = "face") =>
        LET a == emitted[1].analysis
        IN  (Abs(a.gaze_direction.x) > GAZE_SANITY_BOUND
             \/ Abs(a.gaze_direction.y) > GAZE_SANITY_BOUND) =>
                (a.eye_contact <=>
                    /\ Abs(a.head_pose.yaw) < EYE_CONTACT_THRESHOLD_YAW
                    /\ Abs(a.head_pose.pitch) < EYE_CONTACT_THRESHOLD_PITCH)

\* The step takes is_eye_contact from true to false.
FallingEdge == monitor.is_eye_contact /\ ~monitor'.is_eye_contact

\* C12: in the standalone monitor, over any sequence of frames and key
\* commands, total_eye_contact_time only increases, and it changes only on a
\* frame where is_eye_contact goes from true to false.
C12_TotalOnlyGrowsOnFallingEdge ==
    [][/\ monitor'.total_eye_contact_time >= monitor.total_eye_contact_time
       /\ (monitor'.total_eye_contact_time # monitor.total_eye_contact_time
               => FallingEdge)]_vars

\* C12, amended: total_eye_contact_time decreases only in an iteration that
\* leaves the statistics zeroed (the reset of key 'r'), and it increases only
\* when is_eye_contact goes from true to false.
C12_TotalGrowsUnlessReset ==
    [][/\ (monitor'.total_eye_contact_time < monitor.total_eye_contact_time
               => /\ monitor'.total_eye_contact_time = 0
                  /\ monitor'.TOTAL_BLINKS = 0)
       /\ (monitor'.total_eye_contact_time > monitor.total_eye_contact_time
               => FallingEdge)]_vars

\* A contact has ended and its duration is in the total.
C12_Witness ==
    /\ ~monitor.is_eye_contact
    /\ monitor.total_eye_contact_time > 0
    /\ monitor.eye_contact_start_time # None

\* The step takes is_eye_contact from false to true.
RisingEdge == ~monitor.is_eye_contact /\ monitor'.is_eye_contact

\* C13: fed any sequence of in-threshold and out-of-threshold readings, the
\* monitor starts one interval per crossing into contact (at the time of that
\* frame), stops it once at the crossing out, adding stop - start to
\* total_eye_contact_time, and touches neither the start nor the total on a
\* frame without a crossing: the total is the sum of stop - start over the
\* matched pairs.
C13_OneIntervalPerCrossing ==
    [][/\ RisingEdge =>
              /\ monitor'.eye_contact_start_time = Some(clock')
              /\ monitor'.total_eye_contact_time = monitor.total_eye_contact_time
       /\ FallingEdge =>
              /\ monitor.eye_contact_start_time # None
              /\ monitor'.total_eye_contact_time =
                     monitor.total_eye_contact_time
                         + (clock' - monitor.eye_contact_start_time[1])
       /\ (monitor'.is_eye_contact = monitor.is_eye_contact) =>
              /\ monitor'.eye_contact_start_time = monitor.eye_contact_start_time
              /\ monitor'.total_eye_contact_time = monitor.total_eye_contact_time]_vars

\* A contact that started at tick 0 was held for exactly 2 ticks: the total
\* is 2.
C13_Witness ==
    /\ ~monitor.is_eye_contact
    /\ monitor.eye_contact_start_time = Some(0)
    /\ clock = 2
    /\ shown.status = "EYE CONTACT: NO"
    /\ monitor.total_eye_contact_time = 2

\* C14: eye_contact_start_time is set on the transition into contact and
\* cleared on the transition out of it: in every state where is_eye_contact
\* is false, eye_contact_start_time is unset.
C14_StartTimeUnsetOutOfContact ==
    ~monitor.is_eye_contact => monitor.eye_contact_start_time = None

\* The step is the loop iteration of a face frame with blink ratio above the
\* threshold (Open) or at or below it (Closed), no key pressed.
OpenFrame(f, dt) ==
    f.kind = "face" /\ f.ratio > BLINK_THRESHOLD /\ main_loop(f, "", dt)

ClosedFrame(f, dt) ==
    f.kind = "face" /\ f.ratio <= BLINK_THRESHOLD /\ main_loop(f, "", dt)

\* C15: EYES_BLINK_FRAME_COUNTER is the number of consecutive frames with
\* the blink ratio at or below the threshold; the frame on which the ratio
\* rises after exactly 3 such frames increases TOTAL_BLINKS by exactly 1,
\* and after only 1 such frame it leaves TOTAL_BLINKS as it is.
C15_DipOfThreeCountsOne ==
    [][\A f \in BlinkFrames, dt \in {0, 1} :
           /\ ClosedFrame(f, dt) =>
                  monitor'.EYES_BLINK_FRAME_COUNTER
                      = monitor.EYES_BLINK_FRAME_COUNTER + 1
           /\ OpenFrame(f, dt) =>
                  /\ monitor'.EYES_BLINK_FRAME_COUNTER = 0
                  /\ monitor.EYES_BLINK_FRAME_COUNTER = 3
                         => monitor'.TOTAL_BLINKS = monitor.TOTAL_BLINKS + 1
                  /\ monitor.EYES_BLINK_FRAME_COUNTER = 1
                         => monitor'.TOTAL_BLINKS = monitor.TOTAL_BLINKS]_vars

\* The ratio has risen after a dip and the blink is counted and drawn.
C15_Witness ==
    /\ monitor.EYES_BLINK_FRAME_COUNTER = 0
    /\ monitor.TOTAL_BLINKS = 1
    /\ shown.face
    /\ shown.blink_count = 1

\* C16: any run of at least 2 consecutive frames with the blink ratio at or
\* below the threshold, followed by a frame above it, counts exactly one
\* blink, on the release frame; TOTAL_BLINKS does not change on a frame whose
\* ratio is at or below the threshold.
C16_RunOfTwoCountsOne ==
    [][\A f \in BlinkFrames, dt \in {0, 1} :
           /\ ClosedFrame(f, dt) => monitor'.TOTAL_BLINKS = monitor.TOTAL_BLINKS
           /\ OpenFrame(f, dt) =>
                  monitor'.TOTAL_BLINKS =
                      IF monitor.EYES_BLINK_FRAME_COUNTER >= 2
                      THEN monitor.TOTAL_BLINKS + 1
                      ELSE monitor.TOTAL_BLINKS]_vars

\* The last n entries of the sequence s.
LastN(s, n) == SubSeq(s, Len(s) - n + 1, Len(s))

\* C17: after any sequence of k pushes, an AngleBuffer of capacity N holds
\* exactly the most recent min(k, N) pushed triples, in insertion order, and
\* so never more than N.
C17_HoldsMostRecent ==
    /\ angle_buffer.buffer = LastN(pushed, Min(Len(pushed), angle_buffer.size))
    /\ Len(angle_buffer.buffer) <= angle_buffer.size

\* More triples were pushed than the buffer holds and the oldest one, which
\* differs from those kept, is gone.
C17_Witness ==
    /\ Len(pushed) > angle_buffer.size
    /\ Len(angle_buffer.buffer) = angle_buffer.size
    /\ \A i \in 1..Len(angle_buffer.buffer) : angle_buffer.buffer[i] # pushed[1]
    /\ angle_buffer.buffer[1] # angle_buffer.buffer[Len(angle_buffer.buffer)]

\* C18: get_average returns <<0, 0, 0>> on an empty buffer and otherwise the
\* arithmetic mean per axis of the triples held, and leaves the buffer as
\* it is.
C18_AverageIsMean ==
    [][averaged' # None =>
           /\ angle_buffer' = angle_buffer
           /\ angle_buffer.buffer = << >> => averaged'[1] = <<0, 0, 0>>
           /\ \A axis \in 1..3 :
                  averaged'[1][axis] * Len(angle_buffer.buffer)
                      = SumAxis(angle_buffer.buffer, axis)]_vars

\* The mean of two entries that differ.
C18_Witness ==
    /\ averaged # None
    /\ Len(angle_buffer.buffer) = 2
    /\ angle_buffer.buffer[1] # angle_buffer.buffer[2]
    /\ averaged[1] # <<0, 0, 0>>
    /\ averaged[1] # angle_buffer.buffer[1]
    /\ averaged[1] # angle_buffer.buffer[2]

\* C19: for every input in the declared domains the engagement score lies
\* in [0, 100]; the score of (1.0, 100, 135, 1.0) is 100 and the score of
\* (0, 0, 0, 0) is not negative.
C19_ScoreInRange ==
    overall_engagement # None =>
        /\ 0 <= overall_engagement[1]
        /\ overall_engagement[1] <= 100 * 100
        /\ engagement_inputs = <<100, 100, 135, 100>>
               => overall_engagement[1] = 100 * 100
        /\ engagement_inputs = <<0, 0, 0, 0>> => overall_engagement[1] >= 0

\* The perfect input has been scored 100.
C19_Witness ==
    /\ engagement_inputs = <<100, 100, 135, 100>>
    /\ overall_engagement = Some(100 * 100)

\* C20: the score is clamp(0.35 * eye_ratio * 100 + 0.35 * speech_accuracy
\* + 0.15 * rate_score + 0.15 * voice_factor * 100, 0, 100) with rate_score
\* = clamp(100 - 2 * |wpm - 135|, 0, 100), whatever was scored before; the
\* four weights sum to 1.
C20_ScoreIsWeightedSum ==
    /\ eye_weight + speech_weight + rate_weight + voice_weight = 100
    /\ overall_engagement # None =>
           LET i == engagement_inputs
               rate == Clamp(0, 100, 100 - 2 * Abs(i[3] - 135))
           IN  overall_engagement[1] =
                   Clamp(0, 10000, 35 * i[1] + 35 * i[2] + 15 * rate + 15 * i[4])

\* A score with every term at work: half ratios, a rate of 100 words per
\* minute (rate_score 30), 47 points.
C20_Witness ==
    /\ engagement_inputs = <<50, 50, 100, 50>>
    /\ overall_engagement = Some(4700)

\* C22: sessions share no mutable state: a start_session or process_frame
\* event of one session leaves the statistics and the calibration baseline
\* of every other active session as they were.
C22_SessionsShareNoState ==
    [][\A s \in SessionIds :
           (/\ IsActive(s)
            /\ request'.event \in {"start_session", "process_frame"}
            /\ request'.session_id \in SessionIds \ {s})
               => Statistics(eye_tracker') = Statistics(eye_tracker)]_vars

\* C29: in the web tracker the blink count is 0 in every reachable state:
\* TOTAL_BLINKS never changes, so blink_count in every frame record and
\* blink_count and blink_rate of the comprehensive analysis are 0.
C29_WebBlinkCountZero ==
    /\ eye_tracker.TOTAL_BLINKS = 0
    /\ get_comprehensive_analysis(eye_tracker).core_metrics.blink_count = 0
    /\ get_comprehensive_analysis(eye_tracker).core_metrics.blink_rate = 0
    /\ AcceptedFrame => emitted[1].analysis.blink_count = 0

\* Frames with and without eye contact were processed and the record of the
\* last one reports no blink.
C29_Witness ==
    /\ AcceptedFrame
    /\ request.image_data.kind = "face"
    /\ eye_tracker.total_frames >= 2
    /\ eye_tracker.eye_contact_frames >= 1
    /\ eye_tracker.eye_contact_frames < eye_tracker.total_frames
    /\ emitted[1].analysis.blink_count = 0

\* C30: a process_frame event whose session id is unknown or whose session
\* was stopped leaves the tracker as it is and emits nothing; a session id
\* that is not active becomes active only through its own start_session.
C30_InactiveFrameIgnored ==
    [][/\ (request'.event = "process_frame" /\ ~IsActive(request'.session_id))
              => /\ eye_tracker' = eye_tracker
                 /\ emitted' = << >>
       /\ \A s \in SessionIds :
              (~IsActive(s) /\ s \in DOMAIN active_sessions'
               /\ active_sessions'[s].is_active)
                  => request' = Request("start_session", s, NoImage)]_vars

\* A face frame arrived for a session that was stopped after it had counted
\* frames: nothing was emitted.
C30_Witness ==
    /\ request.event = "process_frame"
    /\ request.image_data.kind = "face"
    /\ request.session_id \in DOMAIN active_sessions
    /\ ~active_sessions[request.session_id].is_active
    /\ eye_tracker.total_frames > 0
    /\ emitted = << >>

\* The face frames of the capture loop.
FaceFrames == {f \in MonitorFrames : f.kind = "face"}

\* C27: in the standalone monitor, after key 'c' on a frame processed with a
\* baseline already set, a next frame whose smoothed head pose is unchanged
\* is drawn with calibrated pitch, yaw and roll of 0.
C27_RecalibrationZeroesPose ==
    [][\A f \in FaceFrames, dt \in {0, 1} :
           (monitor.calibrated /\ main_loop(f, "c", dt)) =>
               \A g \in FaceFrames :
                   LET next == ProcessFace(monitor', g, clock')
                   IN  AngleBuffer_get_average(next.globals.angle_buffer)
                           = AngleBuffer_get_average(monitor'.angle_buffer)
                       => /\ next.drawn.pitch = 0
                          /\ next.drawn.yaw = 0
                          /\ next.drawn.roll = 0]_vars

\* C28: in the standalone monitor, when key 'r' resets the statistics while
\* an eye-contact interval is open, the frame that later ends the interval
\* adds to total_eye_contact_time only the time elapsed since the reset
\* (here: the interval ends on the next frame, d ticks after the reset).
C28_ResetForgetsElapsedTime ==
    [][\A f \in MonitorFrames, dt \in {0, 1} :
           (main_loop(f, "r", dt) /\ f.kind \in {"face", "noface"}
            /\ monitor'.is_eye_contact) =>
               \A g \in FaceFrames, d \in {0, 1} :
                   LET next == ProcessFace(monitor', g, clock' + d)
                   IN  ~next.globals.is_eye_contact
                           => next.globals.total_eye_contact_time = d]_vars

\* C25: the gaze vector returned by the gaze computation has each component
\* in [-1, 1] for every landmark set, and an eye span of zero length gives
\* the neutral (0, 0).
C25_GazeInUnitRange ==
    gaze_returned # None =>
        /\ Abs(gaze_returned[1][1]) <= 1000
        /\ Abs(gaze_returned[1][2]) <= 1000
        /\ (\/ gaze_args[1].left_inner = gaze_args[1].left_outer
            \/ gaze_args[1].right_inner = gaze_args[1].right_outer)
               => gaze_returned[1] = <<0, 0>>

\* C21: after a slide action, recognized from the model's label or by the
\* fallback, no further slide action is emitted until more than
\* COOLDOWN_SECS has elapsed: any two key presses are more than the cooldown
\* apart, and a swipe inside the window presses no key.
C21_SwipeDebounce ==
    \A i, j \in 1..Len(swipes) :
        (i < j /\ swipes[i].pressed # "" /\ swipes[j].at - swipes[i].at <= COOLDOWN_SECS)
            => swipes[j].pressed = ""

\* A swipe was acted on, a second one at the very end of the cooldown window
\* was not, and a third was acted on as soon as the cooldown had elapsed.
C21_Witness ==
    /\ Len(swipes) = 3
    /\ swipes[1].pressed # ""
    /\ swipes[2].pressed = ""
    /\ swipes[2].at - swipes[1].at = COOLDOWN_SECS
    /\ swipes[3].pressed # ""
    /\ swipes[3].at - swipes[1].at = COOLDOWN_SECS + 1

\* C26: a session analyzed with 100% eye contact, accuracy_score 100, wpm 135
\* and voice factor 1 is stored with overall_engagement 100.
C26_FullMarksScoreHundred ==
    \A s \in SessionIds :
        (/\ analysis[s] # None
         /\ analysis[s][1].core_metrics.eye_contact_score = 1000
         /\ analysis[s][1].speech_metrics = Some([accuracy_score |-> 100, wpm |-> 135])
         /\ voice_factor_of(analysis[s][1].voice_metrics) = 10000)
            => analysis[s][1].overall_engagement = 100 * 10000

\* C24: GET /ai/recommendations is answered 401 whenever the Authorization
\* header is missing or carries a token no successful login returned; only a
\* token /auth/login returned for an existing user gives access, and to that
\* user's recommendations.
C24_OnlyIssuedTokensGiveAccess ==
    api.endpoint = "recommendations" =>
        /\ (\/ api.authorization = None
            \/ \A i \in issued : i.token # api.authorization[1])
               => api.status = 401
        /\ api.status = 200 =>
               \E i \in issued : /\ i.token = api.authorization[1]
                                 /\ api.user = Some(i.email)

\* C23: frame processing for one session is serialized, so when two frames
\* of a session arrive concurrently no counter increment is lost:
\* total_frames is the number of calls that have counted their frame, and
\* eye_contact_frames never exceeds it.
C23_NoIncrementLost ==
    (\A c \in 1..MaxCalls : calls[c].pc \in {"idle", "done"} /\ calls[c].session_id \in {"", "s1"})
        => /\ eye_tracker.total_frames = Cardinality({c \in 1..MaxCalls : calls[c].counted})
           /\ eye_tracker.eye_contact_frames =
                  Cardinality({c \in 1..MaxCalls : calls[c].counted /\ calls[c].current_eye_contact})

====
